---- MODULE Spec2Model ----
(***************************************************************************)
(* State-machine model of evolocity/tools/random_walk.py (random_walk) and *)
(* evolocity/tools/velocity_model.py (velocity_model).                     *)
(*                                                                         *)
(* Indices are 0-based as in the source: a mask is a function on           *)
(* 0..NNodes-1, a transition matrix a function [0..n-1 -> [0..n-1 -> Int]],*)
(* a path array a function [0..n_walks-1 -> [0..walk_length -> Int]].      *)
(* Probabilities are integers in units of 1/Unit, so a row is a valid      *)
(* probability vector iff it is non-negative and sums to Unit.             *)
(***************************************************************************)
EXTENDS Integers, Sequences, FiniteSets, TLC

\* ------------------------------------------------------------------ bounds
NNodes == 3
MaxWalkLength == 2
MaxWalks == 2
Unit == 4

\* ------------------------------------------------------------- vocabulary
\* default of the argument random_state. No statement of random_walk reads
\* the argument: the draws of line 109 come from numpy's global RandomState,
\* whose state (rng) the call finds as the process left it.
random_state == 0

None == "None"
PathKey == "rw_paths"
GroupbyKey == "clusters"
CatOrder == <<"A", "B">>
Nodes == 0 .. (NNodes - 1)
RngStates == 0 .. 7
TKinds == {"cycle", "absorb", "split", "leaky", "negative"}
SkipWarning == "Root node not in grouped subset, skipping."
GroupbyWarning == "Only set groupby, when you have evident distinct clusters/lineages"

VARIABLES
    obs,          \* adata.obs[groupby]: node -> category label
    tkind,        \* which matrix the transition-matrix provider derives from the data
    groupby,      \* argument groupby (None or a key of obs)
    groupsArg,    \* argument groups (None or one label)
    root_node,    \* argument root_node
    walk_length,  \* argument walk_length
    n_walks,      \* argument n_walks
    rng,          \* state of numpy's global RandomState
    uns,          \* adata.uns: key -> stored path array
    run,          \* "first" or "second" call of random_walk on the same arguments
    pc,           \* position inside random_walk
    err,          \* exception that ended the call and the line that raised it
    catIdx,       \* number of categories the for-loop has finished
    groups,       \* local variable groups (reassigned at line 90)
    T,            \* local T of the current category
    paths,        \* local paths (group-local indices) of the current category
    t,            \* loop variable of the sampling loop
    warnings,     \* messages handed to logg.warn during the current call
    built,        \* groups values transition_matrix was called for in the current call
    log,          \* history: one record per adata.uns write of the current call
    firstLog,     \* history: log of the first call when it returned
    firstPc,      \* history: how the first call ended
    unsAtStart,   \* history: adata.uns when the current call began
    vmArgs,       \* arguments of velocity_model and the outcome of get_model
    vmPc,         \* position inside velocity_model
    vmCaller,     \* uns of the caller's adata
    vmWork,       \* uns of the object the local name adata is bound to
    vmRet,        \* value velocity_model returned
    vmErr         \* exception that ended velocity_model, "none" otherwise

inputs == <<obs, tkind, groupby, groupsArg, root_node, walk_length, n_walks>>
rwState == <<rng, uns, run, pc, err, catIdx, groups, T, paths, t, warnings, built,
             log, firstLog, firstPc, unsAtStart>>
vmState == <<vmArgs, vmPc, vmCaller, vmWork, vmRet, vmErr>>
vars == <<inputs, rwState, vmState>>

\* -------------------------------------------------------- python indexing
Min(a, b) == IF a < b THEN a ELSE b
Max(a, b) == IF a < b THEN b ELSE a

\* a[i] on a sequence of length len: valid for -len <= i < len, negative i
\* counts from the end
PyIndexOK(len, i) == (0 - len) <= i /\ i < len
PyIndex(len, i) == IF i < 0 THEN len + i ELSE i

\* a[:i]: the stop of the slice after python's clamping
PySliceStop(len, i) == IF i < 0 THEN Max(len + i, 0) ELSE Min(i, len)

RECURSIVE SumTo(_, _)
SumTo(f, k) == IF k < 0 THEN 0 ELSE f[k] + SumTo(f, k - 1)

Count(mask, stop) == Cardinality({i \in 0 .. (stop - 1) : mask[i]})

\* ------------------------------------------------------ group partitioner
\* lines 86-88: the categories the for-loop iterates
Categories ==
    IF groupby # None /\ groupsArg = None
    THEN SelectSeq(CatOrder, LAMBDA c : \E i \in Nodes : obs[i] = c)
    ELSE <<None>>

\* line 90: groups = cat if cat is not None else groups
NextGroups(cat, g) == IF cat # None THEN cat ELSE g

\* line 91: groups_to_bool. No grouping key or no group gives the all-True
\* mask, otherwise membership of each node in the requested group.
GroupsToBool(g, gby) ==
    [i \in Nodes |-> IF g = None \/ gby = None THEN TRUE ELSE obs[i] = g]

\* line 92/102: number of rows of _adata
NNodesOf(node_subset) == Count(node_subset, NNodes)

\* line 94: node_subset[root_node] raises IndexError outside [-N, N)
RootIndexOK(node_subset, root) == PyIndexOK(NNodes, root)

\* mutant: the membership test of line 94 dropped
RootInSubsetAlways(node_subset, root) == TRUE

\* line 94: the value of node_subset[root_node]
RootInSubset(node_subset, root) == node_subset[PyIndex(NNodes, root)]

\* mutant: line 105 left out, the walks start at local index 0
RootNodeGroupZero(node_subset, root) == 0

\* line 99: root_node_group = sum(node_subset[:root_node])
RootNodeGroup(node_subset, root) == Count(node_subset, PySliceStop(NNodes, root))

\* mutant: no remapping, the local index is taken for the global one
GroupMapIdentity(node_subset) == [j \in 0 .. (NNodesOf(node_subset) - 1) |-> j]

\* line 114: group_map = np.argwhere(node_subset).ravel(), the True indices
\* in increasing order
GroupMap(node_subset) ==
    [j \in 0 .. (NNodesOf(node_subset) - 1) |->
        CHOOSE i \in Nodes : node_subset[i] /\ Count(node_subset, i) = j]

\* lines 115-117: every local index replaced by group_map[local]
Remap(node_subset, p) ==
    [w \in DOMAIN p |-> [s \in DOMAIN p[w] |-> GroupMap(node_subset)[p[w][s]]]]

\* mutant: the category suffix of lines 120-121 left out
GroupPathKeyPlain(cat) == PathKey

\* lines 119-121: the key the path set is stored under
GroupPathKey(cat) == IF cat # None THEN PathKey \o "_" \o cat ELSE PathKey

\* --------------------------------------------- transition matrix provider
\* line 101: transition_matrix(_adata, ...). The provider is a function of
\* the data: tkind names the matrix it derives, n the size of the subset.
\*   cycle    i -> i+1 (mod n) with probability 1
\*   absorb   i -> i+1 until the last node, which loops on itself
\*   split    i -> i+1 and i -> i+2 (mod n), half of the mass each
\*   leaky    split, but the last row sums to Unit - 1
\*   negative cycle, but the last row holds a negative entry (sum Unit)
Entry(j, a, x, b, y) == (IF j = a THEN x ELSE 0) + (IF j = b THEN y ELSE 0)

TransitionMatrix(kind, n) ==
    [i \in 0 .. (n - 1) |-> [j \in 0 .. (n - 1) |->
        LET nxt == (i + 1) % n
            nx2 == (i + 2) % n
            half == Unit \div 2
            last == (i = n - 1)
        IN  CASE kind = "cycle" -> Entry(j, nxt, Unit, nxt, 0)
              [] kind = "absorb" -> Entry(j, Min(i + 1, n - 1), Unit, nxt, 0)
              [] kind = "split" -> Entry(j, nxt, half, nx2, Unit - half)
              [] kind = "leaky" ->
                   Entry(j, nxt, half, nx2, Unit - half - (IF last THEN 1 ELSE 0))
              [] kind = "negative" ->
                   IF last THEN Entry(j, i, 0 - 1, nxt, Unit + 1)
                   ELSE Entry(j, nxt, Unit, nxt, 0)]]

\* ----------------------------------------------------------- walk sampler
\* mutant: no validation of p, the draw normalises whatever it is given
ValidPAlways(n, p) == TRUE

\* np.random.choice(n, p=p) rejects p with a negative entry or a sum that
\* is not 1 (ValueError)
ValidP(n, p) == (\A j \in 0 .. (n - 1) : p[j] >= 0) /\ SumTo(p, n - 1) = Unit

\* the global RandomState advances by one step per draw
NextRng(r) == (5 * r + 3) % Cardinality(RngStates)

\* the uniform sample in [0, 1) the state yields, in units of 1/Unit
Uniform(r) == (r * Unit) \div Cardinality(RngStates)

\* mutant: searchsorted with side='left', the number of cdf entries < u
ChoiceLeft(n, p, u) ==
    Cardinality({j \in 0 .. (n - 1) : SumTo(p, j) * Unit < u * SumTo(p, n - 1)})

\* np.random.choice: cdf = p.cumsum(); cdf /= cdf[-1];
\* idx = cdf.searchsorted(u, side='right'), the number of cdf entries <= u
Choice(n, p, u) ==
    Cardinality({j \in 0 .. (n - 1) : SumTo(p, j) * Unit <= u * SumTo(p, n - 1)})

\* lines 108-112: the list comprehension draws for w = 0, 1, ... in order; the
\* first draw that raises ends it and nothing is assigned
RECURSIVE DrawColumn(_, _, _, _, _, _)
DrawColumn(M, n, p, s, w, r) ==
    IF w = n_walks THEN [ok |-> TRUE, rng |-> r, col |-> <<>>]
    ELSE LET row == M[p[w][s]]
         IN  IF ~ValidP(n, row) THEN [ok |-> FALSE, rng |-> r, col |-> <<>>]
             ELSE LET r1 == NextRng(r)
                      rest == DrawColumn(M, n, p, s, w + 1, r1)
                  IN  [ok |-> rest.ok, rng |-> rest.rng,
                       col |-> <<Choice(n, row, Uniform(r1))>> \o rest.col]

\* ------------------------------------------------------------- initial state
Empty == <<>>

\* one node carries label "B", the others "A"
ObsChoices == {[i \in Nodes |-> IF i = k THEN "B" ELSE "A"] : k \in Nodes}

GroupArgs == {<<None, None>>, <<GroupbyKey, None>>, <<GroupbyKey, "B">>, <<None, "B">>}

VmArgChoices ==
    [copy : BOOLEAN, mkey : {"model", "lm"}, model_name : {"esm1b", "tape"},
     loads : BOOLEAN]

NoVmArgs == [copy |-> FALSE, mkey |-> "model", model_name |-> "esm1b", loads |-> TRUE]

RwInit ==
    /\ obs \in ObsChoices
    /\ tkind \in TKinds
    /\ \E ga \in GroupArgs : groupby = ga[1] /\ groupsArg = ga[2]
    /\ root_node \in (0 - 1) .. NNodes
    /\ walk_length \in (0 - 1) .. MaxWalkLength
    /\ n_walks \in 0 .. MaxWalks
    /\ rng \in RngStates
    /\ pc = "idle"
    /\ vmArgs = NoVmArgs /\ vmPc = "off" /\ vmCaller = Empty

VmInit ==
    /\ obs = [i \in Nodes |-> "A"]
    /\ tkind = "cycle"
    /\ groupby = None /\ groupsArg = None
    /\ root_node = 0 /\ walk_length = 0 /\ n_walks = 0
    /\ rng = 0
    /\ pc = "off"
    /\ vmArgs \in VmArgChoices
    /\ vmPc = "idle"
    /\ vmCaller \in {Empty, [k \in {"model", "rw_paths"} |-> "old"]}

\* what an earlier call with walk_length = 0, n_walks = 1, root_node = 0 left
Stale == [w \in {0} |-> [s \in {0} |-> 0]]

AllKeys == {GroupPathKey(None)} \cup {GroupPathKey(CatOrder[i]) : i \in DOMAIN CatOrder}

Init ==
    /\ \/ RwInit /\ uns \in {Empty, [k \in AllKeys |-> Stale]}
       \/ VmInit /\ uns = Empty
    /\ unsAtStart = uns
    /\ run = "first" /\ err = "none" /\ catIdx = 0 /\ groups = groupsArg
    /\ T = Empty /\ paths = Empty /\ t = 0
    /\ warnings = Empty /\ built = Empty /\ log = Empty
    /\ firstLog = Empty /\ firstPc = "none"
    /\ vmWork = vmCaller /\ vmRet = "none" /\ vmErr = "none"

\* ------------------------------------------------------------- random_walk
\* lines 73-88: entry of the call up to the head of the for-loop
Enter ==
    /\ err' = "none" /\ catIdx' = 0 /\ groups' = groupsArg
    /\ T' = Empty /\ paths' = Empty /\ t' = 0
    /\ warnings' = IF groupby # None THEN <<GroupbyWarning>> ELSE Empty
    /\ built' = Empty /\ log' = Empty
    /\ unsAtStart' = uns
    /\ pc' = "cat"
    /\ UNCHANGED <<inputs, vmState, rng, uns>>

Call ==
    /\ pc = "idle"
    /\ run' = "first" /\ firstLog' = Empty /\ firstPc' = "none"
    /\ Enter

\* the caller repeats the call with the same arguments on the same adata
CallAgain ==
    /\ pc \in {"done", "error"} /\ run = "first"
    /\ run' = "second" /\ firstLog' = log /\ firstPc' = pc
    /\ Enter

Fail(e) == pc' = "error" /\ err' = e

\* line 89: the loop variable; catIdx categories are already finished
Cat == Categories[catIdx + 1]

AtCategory == pc = "cat" /\ catIdx < Len(Categories)

\* lines 89-94 with root_node outside the mask: IndexError
RootIndexError ==
    /\ AtCategory
    /\ LET g == NextGroups(Cat, groups)
           node_subset == GroupsToBool(g, groupby)
       IN  /\ ~RootIndexOK(node_subset, root_node)
           /\ groups' = g
           /\ Fail("IndexError@94")
    /\ UNCHANGED <<inputs, vmState, rng, uns, run, catIdx, T, paths, t, warnings,
                   built, log, firstLog, firstPc, unsAtStart>>

\* lines 89-98: the root is not in the subset, warn and continue
SkipCategory ==
    /\ AtCategory
    /\ LET g == NextGroups(Cat, groups)
           node_subset == GroupsToBool(g, groupby)
       IN  /\ RootIndexOK(node_subset, root_node)
           /\ ~RootInSubset(node_subset, root_node)
           /\ groups' = g
           /\ warnings' = Append(warnings, SkipWarning)
           /\ catIdx' = catIdx + 1
    /\ UNCHANGED <<inputs, vmState, rng, uns, run, pc, err, T, paths, t, built, log,
                   firstLog, firstPc, unsAtStart>>

\* lines 89-105: the root is in the subset; build T and allocate paths
BeginCategory ==
    /\ AtCategory
    /\ LET g == NextGroups(Cat, groups)
           node_subset == GroupsToBool(g, groupby)
           root_node_group == RootNodeGroup(node_subset, root_node)
       IN  /\ RootIndexOK(node_subset, root_node)
           /\ RootInSubset(node_subset, root_node)
           /\ groups' = g
           /\ built' = Append(built, g)
           /\ T' = TransitionMatrix(tkind, NNodesOf(node_subset))
           /\ t' = 0
           /\ IF n_walks < 0 \/ walk_length + 1 < 0
              THEN Fail("ValueError@104") /\ paths' = Empty   \* np.zeros
              ELSE IF walk_length + 1 = 0
              THEN Fail("IndexError@105") /\ paths' = Empty   \* paths[:, 0]
              ELSE /\ paths' = [w \in 0 .. (n_walks - 1) |->
                                  [s \in 0 .. walk_length |->
                                      IF s = 0 THEN root_node_group ELSE 0]]
                   /\ pc' = "walk" /\ err' = err
    /\ UNCHANGED <<inputs, vmState, rng, uns, run, catIdx, warnings, log, firstLog,
                   firstPc, unsAtStart>>

\* lines 107-112: one iteration of the sampling loop, a draw for every walk.
\* paths is a float array holding integral values; T[paths[w, t], :] is read
\* as the row of T at that integer.
SampleStep ==
    /\ pc = "walk" /\ t < walk_length
    /\ LET node_subset == GroupsToBool(groups, groupby)
           d == DrawColumn(T, NNodesOf(node_subset), paths, t, 0, rng)
       IN  /\ rng' = d.rng
           /\ IF d.ok
              THEN /\ paths' = [w \in DOMAIN paths |->
                                  [paths[w] EXCEPT ![t + 1] = d.col[w + 1]]]
                   /\ t' = t + 1
                   /\ UNCHANGED <<pc, err>>
              ELSE Fail("ValueError@109") /\ UNCHANGED <<paths, t>>
    /\ UNCHANGED <<inputs, vmState, uns, run, catIdx, groups, T, warnings, built, log,
                   firstLog, firstPc, unsAtStart>>

\* lines 114-122: remap to global indices and store; np.vstack of an empty
\* list raises ValueError
StoreCategory ==
    /\ pc = "walk" /\ t >= walk_length
    /\ LET node_subset == GroupsToBool(groups, groupby)
           group_path_key == GroupPathKey(Cat)
           global == Remap(node_subset, paths)
       IN  IF n_walks = 0
           THEN Fail("ValueError@115") /\ UNCHANGED <<uns, log, catIdx>>
           ELSE /\ uns' = (group_path_key :> global) @@ uns
                /\ log' = Append(log, [key |-> group_path_key, cat |-> Cat,
                                       groups |-> groups, subset |-> node_subset,
                                       T |-> T, local |-> paths, paths |-> global])
                /\ catIdx' = catIdx + 1
                /\ pc' = "cat" /\ err' = err
    /\ UNCHANGED <<inputs, vmState, rng, run, groups, T, paths, t, warnings, built,
                   firstLog, firstPc, unsAtStart>>

\* lines 124-129: the loop is exhausted, the call returns
Return ==
    /\ pc = "cat" /\ catIdx = Len(Categories)
    /\ pc' = "done"
    /\ UNCHANGED <<inputs, vmState, rng, uns, run, err, catIdx, groups, T, paths, t,
                   warnings, built, log, firstLog, firstPc, unsAtStart>>

\* ---------------------------------------------------------- velocity_model
\* names bound when line 13 runs: the parameters and the local model, and the
\* module-level import
VmLocals == {"adata", "model_name", "mkey", "copy", "model"}
VmGlobals == {"get_model"}

\* the name line 13 subscripts to reach the uns mapping
VmStoreTarget == "data"

\* lines 9-11: bind adata (a copy on request) and load the model
VmLoad ==
    /\ vmPc = "idle"
    /\ vmWork' = vmCaller
    /\ IF vmArgs.loads
       THEN vmPc' = "loaded" /\ vmErr' = vmErr
       ELSE vmPc' = "error" /\ vmErr' = "get_model"
    /\ UNCHANGED <<inputs, rwState, vmArgs, vmCaller, vmRet>>

\* lines 13-15: store the model under mkey and return
VmStore ==
    /\ vmPc = "loaded"
    /\ IF VmStoreTarget \notin VmLocals \cup VmGlobals
       THEN /\ vmPc' = "error" /\ vmErr' = "NameError"
            /\ UNCHANGED <<vmCaller, vmWork, vmRet>>
       ELSE /\ vmWork' = (vmArgs.mkey :> vmArgs.model_name) @@ vmWork
            /\ vmCaller' = IF vmArgs.copy THEN vmCaller ELSE vmWork'
            /\ vmRet' = IF vmArgs.copy THEN "adata" ELSE "None"
            /\ vmPc' = "done" /\ vmErr' = vmErr
    /\ UNCHANGED <<inputs, rwState, vmArgs>>

Next ==
    \/ Call
    \/ CallAgain
    \/ RootIndexError
    \/ SkipCategory
    \/ BeginCategory
    \/ SampleStep
    \/ StoreCategory
    \/ Return
    \/ VmLoad
    \/ VmStore

Spec == Init /\ [][Next]_vars

\* ================================================================== claims
LogIdx == DOMAIN log
Walks == 0 .. (n_walks - 1)

\* the value adata.uns holds under k, Empty when the key is absent
Stored(store, k) == IF k \in DOMAIN store THEN store[k] ELSE Empty

\* ---------------------------------------------------------------------- C1
\* C1: two calls with the same seed, T, root, walk_length and n_walks that
\* both return have written identical path arrays, walk by walk, step by step.
ValidArgs == root_node \in Nodes /\ walk_length >= 1 /\ n_walks >= 1

C1_SameSeedSamePaths ==
    (run = "second" /\ pc = "done" /\ firstPc = "done"
        /\ ValidArgs /\ tkind \in {"cycle", "absorb", "split"}) =>
        /\ Len(log) = Len(firstLog)
        /\ \A i \in LogIdx : log[i].paths = firstLog[i].paths

\* ---------------------------------------------------------------------- C2
\* C2: for a root inside [0, N) that the mask contains, column 0 of every
\* walk of every written path set is the global root_node; the local root is
\* the number of True mask entries strictly before root_node, and the sorted
\* True indices map that rank back to root_node.
C2_RootColumn ==
    \A i \in LogIdx :
        (root_node \in Nodes /\ log[i].subset[root_node]) =>
            LET rank == Cardinality({k \in Nodes : k < root_node /\ log[i].subset[k]})
            IN  /\ \A w \in Walks : log[i].paths[w][0] = root_node
                /\ \A w \in Walks : log[i].local[w][0] = rank
                /\ GroupMap(log[i].subset)[rank] = root_node
                /\ uns[log[i].key] = log[i].paths

\* a grouped path set whose root has a local index different from its global one
C2_Witness ==
    \E i \in LogIdx :
        /\ root_node \in Nodes /\ log[i].subset[root_node]
        /\ n_walks >= 2 /\ walk_length >= 1
        /\ log[i].local[1][0] # root_node
        /\ log[i].paths[1][0] = root_node

\* ---------------------------------------------------------------------- C3
\* C3: every stored path set has shape (n_walks, walk_length + 1) and every
\* entry is group_map[local]: a node in [0, N) at which the mask is True.
C3_ShapeAndRange ==
    \A i \in LogIdx :
        LET P == uns[log[i].key]
            trueIdx == {k \in Nodes : log[i].subset[k]}
        IN  /\ DOMAIN P = Walks /\ Walks # {}
            /\ \A w \in Walks :
                /\ DOMAIN P[w] = 0 .. walk_length
                /\ \A s \in 0 .. walk_length :
                    /\ P[w][s] \in Nodes
                    /\ P[w][s] \in trueIdx
                    /\ Cardinality({k \in trueIdx : k < P[w][s]}) = log[i].local[w][s]

\* a grouped path set of full size with an entry whose global index differs
\* from the local one
C3_Witness ==
    \E i \in LogIdx :
        /\ n_walks = MaxWalks /\ walk_length = MaxWalkLength
        /\ \E k \in Nodes : ~log[i].subset[k]
        /\ \E w \in Walks, s \in 1 .. walk_length :
              uns[log[i].key][w][s] # log[i].local[w][s]

\* ---------------------------------------------------------------------- C4
\* C4: every step a walk has taken goes along an edge of strictly positive
\* probability, a walk that is in an absorbing node stays there, and a stored
\* walk has taken all walk_length steps.
PositiveSteps(M, p, upto) ==
    \A w \in DOMAIN p : \A s \in 0 .. (upto - 1) :
        /\ M[p[w][s]][p[w][s + 1]] > 0
        /\ (M[p[w][s]][p[w][s]] = Unit => p[w][s + 1] = p[w][s])

C4_NoZeroEdge ==
    /\ pc = "walk" => PositiveSteps(T, paths, t)
    /\ \A i \in LogIdx :
          /\ PositiveSteps(log[i].T, log[i].local, walk_length)
          /\ \A w \in Walks : DOMAIN log[i].local[w] = 0 .. walk_length

\* a stored walk that entered an absorbing node before its last step and
\* stayed there
C4_Witness ==
    \E i \in LogIdx : \E w \in Walks :
        /\ walk_length >= 2
        /\ LET p == log[i].local[w]
           IN  /\ p[0] # p[1]
               /\ log[i].T[p[1]][p[1]] = Unit
               /\ p[2] = p[1]

\* ---------------------------------------------------------------------- C5
\* C5: a category whose mask does not hold the root is skipped: no matrix is
\* built for it, the store entry under its key is as it was when the call
\* began, one warning is emitted for it, and the loop goes on: a call that
\* returns has written the key of every category that holds the root.
MaskOf(c) == GroupsToBool(NextGroups(c, groupsArg), groupby)
RootAt(mask) == mask[IF root_node < 0 THEN NNodes + root_node ELSE root_node]
RootEntry(c) == RootAt(MaskOf(c))
SkippedCats == {j \in 1 .. catIdx : ~RootEntry(Categories[j])}
SkipWarnings == {j \in DOMAIN warnings : warnings[j] = SkipWarning}

C5_SkipLeavesStore ==
    pc \in {"cat", "walk", "done", "error"} =>
        /\ \A j \in SkippedCats :
              LET c == Categories[j]
              IN  /\ \A b \in DOMAIN built : built[b] # NextGroups(c, groupsArg)
                  /\ Stored(uns, GroupPathKey(c)) = Stored(unsAtStart, GroupPathKey(c))
                  /\ \A i \in LogIdx : log[i].key # GroupPathKey(c)
        /\ \A b \in DOMAIN built : RootAt(GroupsToBool(built[b], groupby))
        /\ Cardinality(SkipWarnings) = Cardinality(SkippedCats)
        /\ pc = "done" =>
              \A j \in 1 .. Len(Categories) :
                  RootEntry(Categories[j]) =>
                      \E i \in LogIdx : log[i].key = GroupPathKey(Categories[j])

\* the first category was skipped over a stale entry, the second was written
C5_Witness ==
    /\ pc = "done" /\ Len(Categories) = 2
    /\ SkippedCats = {1}
    /\ Stored(uns, GroupPathKey(Categories[1])) = Stale
    /\ Len(log) = 1 /\ log[1].key = GroupPathKey(Categories[2])
    /\ warnings = <<GroupbyWarning, SkipWarning>>

C7_ShortWalkRejected ==
    (walk_length < 1 /\ root_node \in Nodes /\ n_walks >= 1) =>
        (log = Empty /\ pc # "done")

\* ---------------------------------------------------------------------- C8
\* C8: a call with root_node outside [0, N) aborts with an error before any
\* path set is written.
C8_RootRangeRejected ==
    (root_node \notin Nodes /\ walk_length >= 1 /\ n_walks >= 1) =>
        (log = Empty /\ pc # "done")

\* ---------------------------------------------------------------------- C9
\* C9: a walk never gets past a row that is not a probability vector: the
\* rows consulted by the steps taken so far, and by every stored path set, are
\* non-negative and sum to one, and the call that failed on such a row has
\* left the store entry of that category as it was.
IsProbVector(p) ==
    /\ \A j \in DOMAIN p : p[j] >= 0
    /\ SumTo(p, Cardinality(DOMAIN p) - 1) = Unit

ConsultedValid(M, p, upto) ==
    \A w \in DOMAIN p : \A s \in 0 .. (upto - 1) : IsProbVector(M[p[w][s]])

BadRowAhead == \E w \in DOMAIN paths : ~IsProbVector(T[paths[w][t]])

C9_InvalidRowFails ==
    /\ pc = "walk" => ConsultedValid(T, paths, t)
    /\ \A i \in LogIdx : ConsultedValid(log[i].T, log[i].local, walk_length)
    /\ (pc = "walk" /\ t < walk_length /\ BadRowAhead) => ~ENABLED StoreCategory
    /\ (pc = "error" /\ err = "ValueError@109") <=>
          (pc = "error" /\ paths # Empty /\ t < walk_length /\ BadRowAhead)
    /\ (pc = "error" /\ err = "ValueError@109") =>
          /\ Stored(uns, GroupPathKey(Cat)) = Stored(unsAtStart, GroupPathKey(Cat))
          /\ \A i \in LogIdx : log[i].key # GroupPathKey(Cat)

\* the call failed on a row summing to less than one after a step that
\* succeeded
C9_Witness ==
    /\ pc = "error" /\ err = "ValueError@109" /\ tkind = "leaky"
    /\ t >= 1 /\ t < walk_length
    /\ BadRowAhead

\* --------------------------------------------------------------------- C10
\* C10: whenever get_model succeeds velocity_model ends without error and the
\* model is stored under uns[mkey] of the object it works on.
C10_ModelStored ==
    (vmArgs.loads /\ vmPc \in {"done", "error"}) =>
        /\ vmErr = "none"
        /\ Stored(vmWork, vmArgs.mkey) = vmArgs.model_name

====
